---- MODULE Spec2Model ----
(***************************************************************************)
(* The live-preview core of the editor (MainContent.tsx, Preview.tsx,      *)
(* ConsoleDrawer.tsx): the compiler that links the three source files into *)
(* one document, the sandboxed iframe that runs it, the instrumentation    *)
(* script compiled into the document, the postMessage bridge and the log   *)
(* store of the console drawer.                                            *)
(*                                                                         *)
(* A JavaScript string is a sequence of tokens.  The tokens that matter to *)
(* String.prototype.replace are tokens of their own: the closing markers   *)
(* and the four replacement patterns.                                      *)
(***************************************************************************)
EXTENDS Integers, Sequences, FiniteSets, TLC

VARIABLES
    files,            \* useLocalStorage("ice-files"): sequence of FileState
    activeFileId,     \* useState("index.html")
    cdnSettings,      \* useLocalStorage("ice-cdn"): library id -> BOOLEAN
    debouncedFiles,   \* useDebounce(files, 500): the forwarded value
    filesTimer,       \* TRUE while the 500 ms timer of useDebounce is pending
    isPreviewVisible, \* useState(true)
    iframeRef,        \* useRef<HTMLIFrameElement | null>(null).current
    iframeDoc,        \* the srcdoc loaded in the preview iframe, NoDoc if none
    logs,             \* useState<LogEntry[]>([])
    toHost,           \* messages queued for the host window, in send order
    toRuntime,        \* messages queued for the iframe window, in send order
    now,              \* Date.now()
    calls,            \* history: the calls of handleExecuteCode
    resolved,         \* history: ids the host logged a result or an error for
    errorThrown,      \* history: an evaluation threw an Error in this document
    lastGoodDoc,      \* history: last document loaded from a set with a markup
    isConsoleOpen,    \* useState(true)
    timerAge,         \* ms since the pending timer of useDebounce was set
    popoutWindowRef,  \* Preview's useRef<Window | null>(null).current
    popoutDoc,        \* the document written to the open pop-out, NoDoc if none
    printed,          \* what the original console method printed last
    sinceClear,       \* history: the entries appended since the last clear
    burst,            \* history: edits and emissions of the current burst
    lastTaken,        \* history: type of the message the host's listener took last
    currentProjectId, \* Layout's useState<string | null>(null)
    debouncedCode,    \* useDebounce(codeContent, 1500): the forwarded value
    codeTimer,        \* TRUE while the 1500 ms timer of useDebounce is pending
    codeTimerAge,     \* ms since the pending 1500 ms timer was set
    saved,            \* history: the last call of saveProject, as a sequence
    senders           \* history: the window that sent each message of toHost

vars == <<files, activeFileId, cdnSettings, debouncedFiles, filesTimer,
          isPreviewVisible, iframeRef, iframeDoc, logs, toHost, toRuntime,
          now, calls, resolved, errorThrown, lastGoodDoc, isConsoleOpen,
          timerAge, popoutWindowRef, popoutDoc, printed, sinceClear, burst,
          lastTaken, currentProjectId, debouncedCode, codeTimer, codeTimerAge,
          saved, senders>>

(* Layout's project state and the auto-save debounce of MainContent. *)
saveVars == <<currentProjectId, debouncedCode, codeTimer, codeTimerAge, saved>>

----------------------------------------------------------------------------
(* Bounds of the model. *)

MaxLogs == 2
MaxQueue == 1
MaxCalls == 1
MaxNow == 1500
TickStep == 250
MaxBurst == 3

(* useDebounce(files, 500) *)
DebounceDelay == 500

(* useDebounce(codeContent, 1500) *)
CodeDebounceDelay == 1500

(* the timeout that ends isInitialLoad *)
InitialLoadDelay == 500

(* No edit since the last emission of the debounce. *)
NoBurst == [edits |-> 0, emissions |-> 0, lastEdit |-> 0]

----------------------------------------------------------------------------
(* Tokens. *)

HEAD_CLOSE == "</head>"
BODY_CLOSE == "</body>"
NEWLINE == "\\n"
NULL == "null-ref"
(* the type of a payload that is absent *)
Missing == "(missing)"
NoDoc == <<"about:blank">>

RECURSIVE Flatten(_)
Flatten(ss) == IF ss = <<>> THEN <<>> ELSE Head(ss) \o Flatten(Tail(ss))

RECURSIVE Join(_, _)
Join(ss, sep) ==
    IF ss = <<>> THEN <<>>
    ELSE IF Len(ss) = 1 THEN <<Head(ss)>>
    ELSE <<Head(ss), sep>> \o Join(Tail(ss), sep)

Contains(s, tok) == \E i \in 1..Len(s) : s[i] = tok

IndexOf(s, tok) ==
    IF Contains(s, tok)
    THEN CHOOSE i \in 1..Len(s) : s[i] = tok /\ \A j \in 1..(i - 1) : s[j] # tok
    ELSE 0

(* The replacement patterns of String.prototype.replace: a dollar sign
   followed by a dollar sign, an ampersand, a backtick or a quote. *)
PAT_DOLLAR == "$$"
PAT_MATCH == "$&"
PAT_BEFORE == "$(backtick)"
PAT_AFTER == "$(quote)"

(* One token of a replacement string, expanded as String.prototype.replace
   does for a string pattern: a dollar sign, the matched text, the text
   before the match, the text after it. *)
ExpandToken(tok, matched, before, after) ==
    IF tok = PAT_DOLLAR THEN <<"$">>
    ELSE IF tok = PAT_MATCH THEN <<matched>>
    ELSE IF tok = PAT_BEFORE THEN before
    ELSE IF tok = PAT_AFTER THEN after
    ELSE <<tok>>

ExpandReplacement(repl, matched, before, after) ==
    Flatten([k \in 1..Len(repl) |-> ExpandToken(repl[k], matched, before, after)])

(* String.prototype.replace(pattern, replacement) with a string pattern:
   the first occurrence only, the replacement expanded, and the string
   unchanged when the pattern does not occur. *)
Replace(s, pattern, repl) ==
    LET i == IndexOf(s, pattern) IN
    IF i = 0 THEN s
    ELSE LET before == SubSeq(s, 1, i - 1)
             after == SubSeq(s, i + 1, Len(s))
         IN  before \o ExpandReplacement(repl, pattern, before, after) \o after

----------------------------------------------------------------------------
(* The source set and the CDN configuration. *)

FileState(id, lang, content) ==
    [id |-> id, name |-> id, language |-> lang, content |-> content]

HtmlFile(c) == FileState("index.html", "html", c)
CssFile(c) == FileState("styles.css", "css", c)
JsFile(c) == FileState("script.js", "javascript", c)

HasFile(fs, name) == \E i \in 1..Len(fs) : fs[i].name = name

(* Array.prototype.find: the first file with that name. *)
FindFile(fs, name) ==
    fs[CHOOSE i \in 1..Len(fs) :
          fs[i].name = name /\ \A j \in 1..(i - 1) : fs[j].name # name]

(* codeContent: the contents of the three files, "" for a missing one *)
codeContentOf(fs) ==
    [html |-> IF HasFile(fs, "index.html")
              THEN FindFile(fs, "index.html").content ELSE <<>>,
     css |-> IF HasFile(fs, "styles.css")
             THEN FindFile(fs, "styles.css").content ELSE <<>>,
     js |-> IF HasFile(fs, "script.js")
            THEN FindFile(fs, "script.js").content ELSE <<>>]

CDN_LIBRARIES ==
    << [id |-> "bootstrap",
        tags |-> <<"<link bootstrap.css>", "<script bootstrap.js>">>],
       [id |-> "tailwind", tags |-> <<"<script tailwind>">>],
       [id |-> "fontawesome", tags |-> <<"<link fontawesome.css>">>],
       [id |-> "jquery", tags |-> <<"<script jquery>">>] >>

LibIds == {CDN_LIBRARIES[i].id : i \in 1..Len(CDN_LIBRARIES)}

DEFAULT_CDN_SETTINGS == [l \in LibIds |-> FALSE]

RECURSIVE EnabledTags(_, _)
EnabledTags(libs, cdn) ==
    IF libs = <<>> THEN <<>>
    ELSE (IF cdn[Head(libs).id] THEN Head(libs).tags ELSE <<>>)
         \o EnabledTags(Tail(libs), cdn)

(* CDN tags with the library enabled last in the list put first. *)
cdnTagsOf_LastFirst(cdn) ==
    Join(EnabledTags([i \in 1..Len(CDN_LIBRARIES) |->
                         CDN_LIBRARIES[Len(CDN_LIBRARIES) + 1 - i]], cdn),
         NEWLINE)

cdnTagsOf(cdn) == Join(EnabledTags(CDN_LIBRARIES, cdn), NEWLINE)

consoleScript == "<script>(instrumentation)</script>"

ErrorDoc == <<"<html><body><h1>Error: index.html not found</h1></body></html>">>

(* The markup with the head fragment put before the first closing head
   marker and the script block before the first closing body marker. *)
LinkedDoc(fs, cdn) ==
    LET htmlContent == FindFile(fs, "index.html").content
        cssContent == IF HasFile(fs, "styles.css")
                      THEN <<"<style>">> \o FindFile(fs, "styles.css").content
                           \o <<"</style>">>
                      ELSE <<>>
        jsContent == IF HasFile(fs, "script.js")
                     THEN <<"<script>">> \o FindFile(fs, "script.js").content
                          \o <<"</script>">>
                     ELSE <<>>
        finalHtml == Replace(htmlContent, HEAD_CLOSE,
                             cdnTagsOf(cdn) \o <<NEWLINE>> \o cssContent
                             \o <<consoleScript, HEAD_CLOSE>>)
    IN  Replace(finalHtml, BODY_CLOSE, jsContent \o <<BODY_CLOSE>>)

(* A compiler that yields the empty document when index.html is missing. *)
compiledDocOf_EmptyOnMissing(fs, cdn) ==
    IF ~HasFile(fs, "index.html") THEN <<>> ELSE LinkedDoc(fs, cdn)

(* A compiler that stamps the document with the state of the log store. *)
compiledDocOf_LogStamped(fs, cdn) ==
    (IF ~HasFile(fs, "index.html") THEN ErrorDoc ELSE LinkedDoc(fs, cdn))
    \o (IF logs = <<>> THEN <<"<!-- no entries -->">> ELSE <<"<!-- entries -->">>)

compiledDocOf(fs, cdn) ==
    IF ~HasFile(fs, "index.html") THEN ErrorDoc ELSE LinkedDoc(fs, cdn)

compiledDoc == compiledDocOf(debouncedFiles, cdnSettings)

----------------------------------------------------------------------------
(* JavaScript values, as far as the bridge tells them apart. *)

Undefined == [t |-> "undefined", v |-> ""]
Null == [t |-> "null", v |-> ""]
Str(s) == [t |-> "string", v |-> s]
Num(d) == [t |-> "number", v |-> d]
Obj(j) == [t |-> "object", v |-> j]
ErrorObj(m) == [t |-> "Error", v |-> m]
Fn == [t |-> "function", v |-> "alert"]
(* a = {}; a.self = a *)
Cyclic == Obj("cyclic")
(* what stands in a messages field that holds no array *)
NotAnArray == [t |-> "no-array", v |-> ""]
TypeErrorNullMessage == "Uncaught TypeError: Cannot read properties of null"
DataCloneError == "Failed to execute 'postMessage': could not be cloned"

(* if (x), x || y *)
Truthy(x) ==
    /\ x.t \notin {"undefined", "null"}
    /\ ~(x.t = "string" /\ x.v = "")
    /\ ~(x.t = "number" /\ x.v = "0")

(* The structured clone that postMessage makes of its message throws a
   DataCloneError for a function. *)
Cloneable(x) == x.t # "function"

(* String(x) *)
StringOf(x) ==
    CASE x.t = "string" -> x
      [] x.t = "undefined" -> Str("undefined")
      [] x.t = "null" -> Str("null")
      [] x.t = "number" -> Str(x.v)
      [] x.t = "object" -> Str("[object Object]")
      [] x.t = "function" -> Str("function alert() { [native code] }")
      [] x.t = "Error" -> IF x.v = "" THEN Str("Error")
                          ELSE IF x.v = "x" THEN Str("Error: x")
                          ELSE Str("Error: ...")

(* JSON.stringify throws a TypeError for a circular structure. *)
JsonThrows(x) == x.t = "object" /\ x.v = "cyclic"

(* JSON.stringify(x, null, 2) of an object *)
JsonStringify(x) ==
    IF x.v = "{a:1}" THEN Str("{\\n  \"a\": 1\\n}") ELSE Str("{}")

(* The code strings typed at the REPL, and what eval makes of each. *)
Codes ==
    {"1+1", "undefined", "null", "({a:1})", "alert",
     "throw new Error('x')", "throw new Error('')", "throw 'x'", "throw ''",
     "throw null", "throw undefined"}

Eval(code) ==
    CASE code = "1+1" -> [kind |-> "return", val |-> Num("2")]
      [] code = "undefined" -> [kind |-> "return", val |-> Undefined]
      [] code = "null" -> [kind |-> "return", val |-> Null]
      [] code = "({a:1})" -> [kind |-> "return", val |-> Obj("{a:1}")]
      [] code = "alert" -> [kind |-> "return", val |-> Fn]
      [] code = "throw new Error('x')" -> [kind |-> "throw", val |-> ErrorObj("x")]
      [] code = "throw new Error('')" -> [kind |-> "throw", val |-> ErrorObj("")]
      [] code = "throw 'x'" -> [kind |-> "throw", val |-> Str("x")]
      [] code = "throw ''" -> [kind |-> "throw", val |-> Str("")]
      [] code = "throw null" -> [kind |-> "throw", val |-> Null]
      [] code = "throw undefined" -> [kind |-> "throw", val |-> Undefined]

Ids == {"id1", "id2"}

ConsoleMsg(level, args, ts) ==
    [type |-> "console", level |-> level, messages |-> args, timestamp |-> ts]
ResultMsg(result, error, id, ts) ==
    [type |-> "result", result |-> result, error |-> error, id |-> id,
     timestamp |-> ts]
ExecuteMsg(code, id) == [type |-> "execute", code |-> code, id |-> id]

LogEntry(level, messages, ts) ==
    [level |-> level, messages |-> messages, timestamp |-> ts]

----------------------------------------------------------------------------
(* The instrumentation script, running in the iframe. *)

(* The script runs in every document it was compiled into. *)
Instrumented(doc) == Contains(doc, consoleScript)

(* The wrapped console[method]: one console message to the parent. *)
ConsoleSend(level, args, ts) == <<ConsoleMsg(level, args, ts)>>

(* original.apply(console, args): what the browser's own console shows. *)
Printed(level, args) == [level |-> level, args |-> args]

(* The window 'error' listener: console.error(event.message). *)
OnUncaughtError(message, ts) == ConsoleSend("error", <<Str(message)>>, ts)

(* The catch branch of the execute listener.  err.message of null or of
   undefined throws a TypeError out of the listener: nothing is posted by
   the branch, and the window's error listener reports the TypeError. *)
CatchBranch(err, id, ts) ==
    IF err.t \in {"null", "undefined"}
    THEN OnUncaughtError(TypeErrorNullMessage, ts)
    ELSE LET message == IF err.t = "Error" THEN Str(err.v) ELSE Undefined
             error == IF Truthy(message) THEN message ELSE StringOf(err)
         IN  <<ResultMsg(Null, error, id, ts)>>

(* The evaluations whose catch branch throws out of the listener. *)
ListenerThrows(msg) ==
    /\ msg.type = "execute"
    /\ Eval(msg.code).kind = "throw"
    /\ Eval(msg.code).val.t \in {"null", "undefined"}

(* The execute listener: what it posts to the parent for one message. *)
ExecuteListener(msg, ts) ==
    IF msg.type # "execute" THEN <<>>
    ELSE LET r == Eval(msg.code) IN
         IF r.kind = "return"
         THEN IF Cloneable(r.val)
              THEN <<ResultMsg(r.val, Null, msg.id, ts)>>
              ELSE CatchBranch(ErrorObj(DataCloneError), msg.id, ts)
         ELSE CatchBranch(r.val, msg.id, ts)

----------------------------------------------------------------------------
(* The host's message handler. *)

DisplayValue(resultValue) ==
    IF resultValue.t = "undefined" THEN Str("undefined")
    ELSE IF resultValue.t = "null" THEN Str("null")
    ELSE IF resultValue.t \in {"object", "Error"} THEN JsonStringify(resultValue)
    ELSE StringOf(resultValue)

(* A handler that logs the messages it does not know. *)
handleMessage_LogsUnknown(data) ==
    IF data.type \in {"console", "result"} THEN <<>>
    ELSE <<LogEntry("log", <<Str(data.type)>>, 0)>>

(* A handler that stamps the entries with the time of their receipt. *)
handleMessage_StampsOnReceipt(data) ==
    IF data.type = "console"
    THEN <<LogEntry(data.level, data.messages, now)>>
    ELSE <<>>

(* The entries handleMessage appends for one message.  For a result whose
   value is a circular structure JSON.stringify throws out of the listener
   before setLogs is reached. *)
handleMessage(data) ==
    IF data.type = "console"
    THEN <<LogEntry(data.level, data.messages, data.timestamp)>>
    ELSE IF data.type = "result"
    THEN IF Truthy(data.error)
         THEN <<LogEntry("error", <<data.error>>, data.timestamp)>>
         ELSE IF JsonThrows(data.result)
         THEN <<>>
         ELSE <<LogEntry("result", <<DisplayValue(data.result)>>, data.timestamp)>>
    ELSE <<>>

(* ConsoleDrawer's rendering of the entries: log.messages.map(...) with
   JSON.stringify of every object.  An exception while React renders (no
   error boundary is mounted) takes the whole tree down, and
   with it the iframe and the host's listener: the session is over. *)
RenderThrows(ls) ==
    \E k \in 1..Len(ls) :
        \E i \in 1..Len(ls[k].messages) :
            \/ ls[k].messages[i] = NotAnArray
            \/ JsonThrows(ls[k].messages[i])

HostCrashed == isPreviewVisible /\ isConsoleOpen /\ RenderThrows(logs)

----------------------------------------------------------------------------
(* The preview iframe. *)

(* A new srcdoc (or the same one, set again) replaces the iframe's document:
   the old document's listeners and the messages still queued for it are
   gone, and the requests made so far can no longer be answered. *)
LoadDoc(doc, fs) ==
    /\ iframeDoc' = doc
    /\ toRuntime' = <<>>
    /\ errorThrown' = FALSE
    /\ calls' = [k \in 1..Len(calls) |-> [calls[k] EXCEPT !.orphaned = TRUE]]
    /\ lastGoodDoc' = IF HasFile(fs, "index.html") THEN doc
                      ELSE lastGoodDoc

(* A preview that keeps the document it has. *)
Render_KeepsDocument(fs, cdn, visible) ==
    UNCHANGED <<iframeDoc, toRuntime, errorThrown, calls, lastGoodDoc>>

(* React sets the srcDoc attribute only when the string changed. *)
Render(fs, cdn, visible) ==
    LET doc == compiledDocOf(fs, cdn) IN
    IF visible /\ doc # iframeDoc
    THEN LoadDoc(doc, fs)
    ELSE UNCHANGED <<iframeDoc, toRuntime, errorThrown, calls, lastGoodDoc>>

(* Preview's effect on [srcDoc]: a mounted Preview whose pop-out is open
   writes the new document into it. *)
MirrorEffect(fs, cdn, visible) ==
    popoutDoc' = IF /\ visible
                    /\ popoutWindowRef # NULL
                    /\ popoutDoc # NoDoc
                    /\ compiledDocOf(fs, cdn) # compiledDoc
                 THEN compiledDocOf(fs, cdn)
                 ELSE popoutDoc

----------------------------------------------------------------------------
(* The host's operations. *)

(* The messages a step added to toHost were sent by window w. *)
SentBy(w) ==
    senders' = senders \o [k \in 1..(Len(toHost') - Len(toHost)) |-> w]

(* onSave of the settings modal, for one toggled library *)
SaveSettings(lib) ==
    /\ cdnSettings' = [cdnSettings EXCEPT ![lib] = ~cdnSettings[lib]]
    /\ UNCHANGED <<files, activeFileId, debouncedFiles, filesTimer,
                   isPreviewVisible, iframeRef, logs, toHost, now, resolved,
                   isConsoleOpen, timerAge, popoutWindowRef, printed,
                   sinceClear, burst, lastTaken>>
    /\ Render(debouncedFiles, [cdnSettings EXCEPT ![lib] = ~cdnSettings[lib]],
              isPreviewVisible)
    /\ MirrorEffect(debouncedFiles,
                    [cdnSettings EXCEPT ![lib] = ~cdnSettings[lib]],
                    isPreviewVisible)
    /\ UNCHANGED saveVars
    /\ UNCHANGED senders
    /\ ~HostCrashed

(* A refresh that compiles the current files anew and loads the outcome. *)
handleRefresh_Recompiles ==
    /\ IF isPreviewVisible
       THEN LoadDoc(compiledDocOf(files, cdnSettings), files)
       ELSE UNCHANGED <<iframeDoc, toRuntime, errorThrown, calls, lastGoodDoc>>
    /\ UNCHANGED <<files, activeFileId, cdnSettings, debouncedFiles, filesTimer,
                   isPreviewVisible, iframeRef, logs, toHost, now, resolved,
                   isConsoleOpen, timerAge, popoutWindowRef, popoutDoc,
                   printed, sinceClear, burst, lastTaken>>
    /\ UNCHANGED saveVars
    /\ UNCHANGED senders
    /\ ~HostCrashed

(* The Refresh button of the preview: iframe.srcdoc = iframe.srcdoc *)
handleRefresh ==
    /\ IF isPreviewVisible
       THEN LoadDoc(iframeDoc, debouncedFiles)
       ELSE UNCHANGED <<iframeDoc, toRuntime, errorThrown, calls, lastGoodDoc>>
    /\ UNCHANGED <<files, activeFileId, cdnSettings, debouncedFiles, filesTimer,
                   isPreviewVisible, iframeRef, logs, toHost, now, resolved,
                   isConsoleOpen, timerAge, popoutWindowRef, popoutDoc,
                   printed, sinceClear, burst, lastTaken>>
    /\ UNCHANGED saveVars
    /\ UNCHANGED senders
    /\ ~HostCrashed

(* onToggleVisibility: the Preview component and its iframe are unmounted,
   and Preview's popoutWindowRef goes with it; the pop-out window stays. *)
HidePreview ==
    /\ isPreviewVisible
    /\ isPreviewVisible' = FALSE
    /\ iframeDoc' = NoDoc
    /\ toRuntime' = <<>>
    /\ errorThrown' = FALSE
    /\ calls' = [k \in 1..Len(calls) |-> [calls[k] EXCEPT !.orphaned = TRUE]]
    /\ popoutWindowRef' = NULL
    /\ UNCHANGED <<files, activeFileId, cdnSettings, debouncedFiles, filesTimer,
                   iframeRef, logs, toHost, now, resolved, lastGoodDoc,
                   isConsoleOpen, timerAge, popoutDoc, printed, sinceClear,
                   burst, lastTaken>>
    /\ UNCHANGED saveVars
    /\ UNCHANGED senders
    /\ ~HostCrashed

(* the Show Preview button: a new Preview with a new iframe *)
ShowPreview ==
    /\ ~isPreviewVisible
    /\ isPreviewVisible' = TRUE
    /\ UNCHANGED <<files, activeFileId, cdnSettings, debouncedFiles, filesTimer,
                   iframeRef, logs, toHost, now, resolved, isConsoleOpen,
                   timerAge, popoutWindowRef, popoutDoc, printed, sinceClear,
                   burst, lastTaken>>
    /\ LoadDoc(compiledDoc, debouncedFiles)
    /\ UNCHANGED saveVars
    /\ UNCHANGED senders
    /\ ~HostCrashed

(* A clear that keeps the command entries. *)
handleClearLogs_KeepsCommands ==
    /\ isPreviewVisible
    /\ isConsoleOpen
    /\ logs' = SelectSeq(logs, LAMBDA e : e.level = "command")
    /\ sinceClear' = <<>>
    /\ UNCHANGED <<files, activeFileId, cdnSettings, debouncedFiles, filesTimer,
                   isPreviewVisible, iframeRef, iframeDoc, toHost, toRuntime,
                   now, calls, resolved, errorThrown, lastGoodDoc,
                   isConsoleOpen, timerAge, popoutWindowRef, popoutDoc,
                   printed, burst, lastTaken>>
    /\ UNCHANGED saveVars
    /\ UNCHANGED senders
    /\ ~HostCrashed

(* The Clear button of the open console drawer. *)
handleClearLogs ==
    /\ isPreviewVisible
    /\ isConsoleOpen
    /\ logs' = <<>>
    /\ sinceClear' = <<>>
    /\ UNCHANGED <<files, activeFileId, cdnSettings, debouncedFiles, filesTimer,
                   isPreviewVisible, iframeRef, iframeDoc, toHost, toRuntime,
                   now, calls, resolved, errorThrown, lastGoodDoc,
                   isConsoleOpen, timerAge, popoutWindowRef, popoutDoc,
                   printed, burst, lastTaken>>
    /\ UNCHANGED saveVars
    /\ UNCHANGED senders
    /\ ~HostCrashed

(* The console drawer, and with it the REPL input, is rendered inside the
   preview panel.  The request is posted only through iframeRef, which
   Preview neither declares as a prop nor attaches to its iframe. *)
handleExecuteCode(code, id) ==
    /\ isPreviewVisible
    /\ isConsoleOpen
    /\ Len(logs) < MaxLogs
    /\ Len(calls) < MaxCalls
    /\ logs' = Append(logs, LogEntry("command", <<Str(code)>>, now))
    /\ sinceClear' = Append(sinceClear, LogEntry("command", <<Str(code)>>, now))
    /\ IF iframeRef # NULL
       THEN /\ Len(toRuntime) < MaxQueue
            /\ toRuntime' = Append(toRuntime, ExecuteMsg(code, id))
            /\ calls' = Append(calls, [id |-> id, mounted |-> TRUE,
                                       orphaned |-> FALSE])
       ELSE /\ toRuntime' = toRuntime
            /\ calls' = Append(calls, [id |-> NULL, mounted |-> TRUE,
                                       orphaned |-> FALSE])
    /\ UNCHANGED <<files, activeFileId, cdnSettings, debouncedFiles, filesTimer,
                   isPreviewVisible, iframeRef, iframeDoc, toHost, now,
                   resolved, errorThrown, lastGoodDoc, isConsoleOpen,
                   timerAge, popoutWindowRef, popoutDoc, printed, burst, lastTaken>>
    /\ UNCHANGED saveVars
    /\ UNCHANGED senders
    /\ ~HostCrashed

(* A listener that appends to the log store as it was at mount: the stale
   closure of an effect with no dependencies. *)
HostOnMessage_StaleClosure ==
    /\ toHost # <<>>
    /\ Len(logs) < MaxLogs
    /\ LET data == Head(toHost) IN
       /\ logs' = IF handleMessage(data) = <<>> THEN logs
                  ELSE handleMessage(data)
       /\ sinceClear' = sinceClear \o handleMessage(data)
       /\ lastTaken' = data.type
       /\ resolved' = IF data.type = "result" THEN resolved \cup {data.id}
                      ELSE resolved
    /\ toHost' = Tail(toHost)
    /\ UNCHANGED <<files, activeFileId, cdnSettings, debouncedFiles, filesTimer,
                   isPreviewVisible, iframeRef, iframeDoc, toRuntime, now,
                   calls, errorThrown, lastGoodDoc, isConsoleOpen, timerAge,
                   popoutWindowRef, popoutDoc, printed, burst>>
    /\ UNCHANGED saveVars
    /\ senders' = Tail(senders)
    /\ ~HostCrashed

(* The host window's message listener takes the next message. *)
HostOnMessage ==
    /\ toHost # <<>>
    /\ Len(logs) < MaxLogs
    /\ LET data == Head(toHost) IN
       /\ logs' = logs \o handleMessage(data)
       /\ sinceClear' = sinceClear \o handleMessage(data)
       /\ lastTaken' = data.type
       /\ resolved' = IF data.type = "result" THEN resolved \cup {data.id}
                      ELSE resolved
    /\ toHost' = Tail(toHost)
    /\ UNCHANGED <<files, activeFileId, cdnSettings, debouncedFiles, filesTimer,
                   isPreviewVisible, iframeRef, iframeDoc, toRuntime, now,
                   calls, errorThrown, lastGoodDoc, isConsoleOpen, timerAge,
                   popoutWindowRef, popoutDoc, printed, burst>>
    /\ UNCHANGED saveVars
    /\ senders' = Tail(senders)
    /\ ~HostCrashed

----------------------------------------------------------------------------
(* The runtime's steps. *)

(* A script with a handle on the iframe's window (the document's own
   script, calling window.postMessage) posts an execute message: the
   listener takes messages from any sender. *)
PostExecute(code, id) ==
    /\ isPreviewVisible
    /\ Len(toRuntime) < MaxQueue
    /\ toRuntime' = Append(toRuntime, ExecuteMsg(code, id))
    /\ UNCHANGED <<files, activeFileId, cdnSettings, debouncedFiles, filesTimer,
                   isPreviewVisible, iframeRef, iframeDoc, logs, toHost, now,
                   calls, resolved, errorThrown, lastGoodDoc, isConsoleOpen,
                   timerAge, popoutWindowRef, popoutDoc, printed, sinceClear,
                   burst, lastTaken>>
    /\ UNCHANGED saveVars
    /\ UNCHANGED senders
    /\ ~HostCrashed

(* The iframe window dispatches the next queued message to the listener. *)
RuntimeOnMessage ==
    /\ toRuntime # <<>>
    /\ Len(toHost) < MaxQueue
    /\ LET msg == Head(toRuntime) IN
       /\ toHost' = IF Instrumented(iframeDoc)
                    THEN toHost \o ExecuteListener(msg, now)
                    ELSE toHost
       /\ errorThrown' = (errorThrown \/ (/\ Instrumented(iframeDoc)
                                          /\ msg.type = "execute"
                                          /\ Eval(msg.code).kind = "throw"
                                          /\ Eval(msg.code).val.t = "Error"))
       /\ printed' = IF Instrumented(iframeDoc) /\ ListenerThrows(msg)
                     THEN Printed("error", <<Str(TypeErrorNullMessage)>>)
                     ELSE printed
    /\ toRuntime' = Tail(toRuntime)
    /\ UNCHANGED <<files, activeFileId, cdnSettings, debouncedFiles, filesTimer,
                   isPreviewVisible, iframeRef, iframeDoc, logs, now, calls,
                   resolved, lastGoodDoc, isConsoleOpen, timerAge,
                   popoutWindowRef, popoutDoc, sinceClear, burst, lastTaken>>
    /\ UNCHANGED saveVars
    /\ SentBy("runtime")
    /\ ~HostCrashed

----------------------------------------------------------------------------
(* The editor, the debounce of the file list and the clock. *)

(* useDebounce's effect on [value, delay]: the pending timer is cleared and
   a new one is set.  The edit opens a burst when no timer was pending. *)
ResetTimer ==
    /\ filesTimer' = TRUE
    /\ timerAge' = 0
    /\ burst' = IF filesTimer
                THEN [burst EXCEPT !.edits = @ + 1, !.lastEdit = now]
                ELSE [edits |-> 1, emissions |-> 0, lastEdit |-> now]

(* useDebounce(codeContent, 1500): codeContent is a new object whenever
   files is, so the same changes reset its timer. *)
ResetCodeTimer ==
    /\ codeTimer' = TRUE
    /\ codeTimerAge' = 0

(* An editor whose edits leave a pending timer running. *)
handleCodeChange_KeepsTimer(newContent) ==
    /\ filesTimer => burst.edits < MaxBurst
    /\ files' = [k \in 1..Len(files) |->
                    IF files[k].id = activeFileId
                    THEN [files[k] EXCEPT !.content = newContent]
                    ELSE files[k]]
    /\ filesTimer' = TRUE
    /\ timerAge' = IF filesTimer THEN timerAge ELSE 0
    /\ burst' = IF filesTimer
                THEN [burst EXCEPT !.edits = @ + 1, !.lastEdit = now]
                ELSE [edits |-> 1, emissions |-> 0, lastEdit |-> now]
    /\ UNCHANGED <<activeFileId, cdnSettings, debouncedFiles, isPreviewVisible,
                   iframeRef, iframeDoc, logs, toHost, toRuntime, now, calls,
                   resolved, errorThrown, lastGoodDoc, isConsoleOpen,
                   popoutWindowRef, popoutDoc, printed, sinceClear,
                   lastTaken>>
    /\ ResetCodeTimer
    /\ UNCHANGED <<currentProjectId, debouncedCode, saved>>
    /\ UNCHANGED senders
    /\ ~HostCrashed

(* onChange of the code editor: newContent || "" into the active file *)
handleCodeChange(newContent) ==
    /\ filesTimer => burst.edits < MaxBurst
    /\ files' = [k \in 1..Len(files) |->
                    IF files[k].id = activeFileId
                    THEN [files[k] EXCEPT !.content = newContent]
                    ELSE files[k]]
    /\ ResetTimer
    /\ UNCHANGED <<activeFileId, cdnSettings, debouncedFiles, isPreviewVisible,
                   iframeRef, iframeDoc, logs, toHost, toRuntime, now, calls,
                   resolved, errorThrown, lastGoodDoc, isConsoleOpen,
                   popoutWindowRef, popoutDoc, printed, sinceClear,
                   lastTaken>>
    /\ ResetCodeTimer
    /\ UNCHANGED <<currentProjectId, debouncedCode, saved>>
    /\ UNCHANGED senders
    /\ ~HostCrashed

(* onTabClick of the tab bar *)
setActiveFileId(id) ==
    /\ HasFile(files, id)
    /\ activeFileId # id
    /\ activeFileId' = id
    /\ UNCHANGED <<files, cdnSettings, debouncedFiles, filesTimer,
                   isPreviewVisible, iframeRef, iframeDoc, logs, toHost,
                   toRuntime, now, calls, resolved, errorThrown, lastGoodDoc,
                   isConsoleOpen, timerAge, popoutWindowRef, popoutDoc,
                   printed, sinceClear, burst, lastTaken>>
    /\ UNCHANGED saveVars
    /\ UNCHANGED senders
    /\ ~HostCrashed

(* MainContentRef.loadProject, called by the layout when a project opens *)
loadProject(html, css, js) ==
    /\ filesTimer => burst.edits < MaxBurst
    /\ files' = <<HtmlFile(html), CssFile(css), JsFile(js)>>
    /\ activeFileId' = "index.html"
    /\ ResetTimer
    /\ UNCHANGED <<cdnSettings, debouncedFiles, isPreviewVisible, iframeRef,
                   iframeDoc, logs, toHost, toRuntime, now, calls, resolved,
                   errorThrown, lastGoodDoc, isConsoleOpen, popoutWindowRef,
                   popoutDoc, printed, sinceClear, lastTaken>>
    /\ ResetCodeTimer
    /\ UNCHANGED <<currentProjectId, debouncedCode, saved>>
    /\ UNCHANGED senders
    /\ ~HostCrashed

(* Time passes; a timer that is due fires before time passes further. *)
Tick ==
    /\ now + TickStep <= MaxNow
    /\ ~(filesTimer /\ timerAge >= DebounceDelay)
    /\ now' = now + TickStep
    /\ timerAge' = IF filesTimer THEN timerAge + TickStep ELSE timerAge
    /\ UNCHANGED <<files, activeFileId, cdnSettings, debouncedFiles, filesTimer,
                   isPreviewVisible, iframeRef, iframeDoc, logs, toHost,
                   toRuntime, calls, resolved, errorThrown, lastGoodDoc,
                   isConsoleOpen, popoutWindowRef, popoutDoc, printed,
                   sinceClear, burst, lastTaken>>
    /\ ~(codeTimer /\ codeTimerAge >= CodeDebounceDelay)
    /\ codeTimerAge' = IF codeTimer THEN codeTimerAge + TickStep ELSE codeTimerAge
    /\ UNCHANGED <<currentProjectId, debouncedCode, codeTimer, saved>>
    /\ UNCHANGED senders
    /\ ~HostCrashed

(* The timer of useDebounce fires: setDebouncedValue(value).  compiledDoc is
   recomputed, the iframe gets the new srcDoc and Preview's effect runs. *)
DebounceFire ==
    /\ filesTimer
    /\ timerAge >= DebounceDelay
    /\ debouncedFiles' = files
    /\ filesTimer' = FALSE
    /\ timerAge' = 0
    /\ burst' = [burst EXCEPT !.emissions = @ + 1]
    /\ Render(files, cdnSettings, isPreviewVisible)
    /\ MirrorEffect(files, cdnSettings, isPreviewVisible)
    /\ UNCHANGED <<files, activeFileId, cdnSettings, isPreviewVisible,
                   iframeRef, logs, toHost, now, resolved, isConsoleOpen,
                   popoutWindowRef, printed, sinceClear, lastTaken>>
    /\ UNCHANGED saveVars
    /\ UNCHANGED senders
    /\ ~HostCrashed

----------------------------------------------------------------------------
(* The layout's projects and the auto-save notification. *)

(* isInitialLoad.current: MainContent is mounted at time 0 *)
isInitialLoad == now < InitialLoadDelay

(* The effect on [debouncedCode, onCodeChange] of MainContent, run with
   the project id of the render it follows: onCodeChange is Layout's
   handleCodeChange when a project is open, undefined otherwise, and
   handleCodeChange calls saveProject with that id and the data given. *)
OnCodeChangeEffect(projectId, code) ==
    saved' = IF ~isInitialLoad /\ projectId # NULL
             THEN <<[id |-> projectId, code |-> code]>>
             ELSE saved

(* Layout's handleOpenProject: loadProject on the editor, then
   setCurrentProjectId.  A new project id makes a new handleCodeChange
   (useCallback on currentProjectId), and a new onCodeChange runs the
   effect of MainContent, with the debouncedCode of that render. *)
handleOpenProject(project) ==
    /\ filesTimer => burst.edits < MaxBurst
    /\ files' = <<HtmlFile(project.html), CssFile(project.css),
                  JsFile(project.js)>>
    /\ activeFileId' = "index.html"
    /\ ResetTimer
    /\ ResetCodeTimer
    /\ currentProjectId' = project.id
    /\ IF project.id # currentProjectId
       THEN OnCodeChangeEffect(project.id, debouncedCode)
       ELSE saved' = saved
    /\ UNCHANGED <<cdnSettings, debouncedFiles, isPreviewVisible, iframeRef,
                   iframeDoc, logs, toHost, toRuntime, now, calls, resolved,
                   errorThrown, lastGoodDoc, isConsoleOpen, popoutWindowRef,
                   popoutDoc, printed, sinceClear, lastTaken, debouncedCode>>
    /\ UNCHANGED senders
    /\ ~HostCrashed

(* The 1500 ms timer of useDebounce fires: setDebouncedValue(codeContent),
   and the effect of MainContent runs on the new debouncedCode. *)
CodeDebounceFire ==
    /\ codeTimer
    /\ codeTimerAge >= CodeDebounceDelay
    /\ debouncedCode' = codeContentOf(files)
    /\ codeTimer' = FALSE
    /\ codeTimerAge' = 0
    /\ OnCodeChangeEffect(currentProjectId, codeContentOf(files))
    /\ UNCHANGED <<files, activeFileId, cdnSettings, debouncedFiles, filesTimer,
                   isPreviewVisible, iframeRef, iframeDoc, logs, toHost,
                   toRuntime, now, calls, resolved, errorThrown, lastGoodDoc,
                   isConsoleOpen, timerAge, popoutWindowRef, popoutDoc,
                   printed, sinceClear, burst, lastTaken, currentProjectId>>
    /\ UNCHANGED senders
    /\ ~HostCrashed

----------------------------------------------------------------------------
(* The pop-out window and the console drawer's toggle. *)

(* The Pop Out button, with no pop-out window open: window.open, the
   current srcDoc written into the new window.  (With the pop-out open and
   referenced the button only focuses it.) *)
PopOut ==
    /\ isPreviewVisible
    /\ popoutDoc = NoDoc
    /\ popoutWindowRef' = "window"
    /\ popoutDoc' = compiledDoc
    /\ UNCHANGED <<files, activeFileId, cdnSettings, debouncedFiles, filesTimer,
                   isPreviewVisible, iframeRef, iframeDoc, logs, toHost,
                   toRuntime, now, calls, resolved, errorThrown, lastGoodDoc,
                   isConsoleOpen, timerAge, printed, sinceClear, burst, lastTaken>>
    /\ UNCHANGED saveVars
    /\ UNCHANGED senders
    /\ ~HostCrashed

(* The user closes the pop-out window: popoutWindowRef.current.closed *)
ClosePopout ==
    /\ popoutDoc # NoDoc
    /\ popoutDoc' = NoDoc
    /\ UNCHANGED <<files, activeFileId, cdnSettings, debouncedFiles, filesTimer,
                   isPreviewVisible, iframeRef, iframeDoc, logs, toHost,
                   toRuntime, now, calls, resolved, errorThrown, lastGoodDoc,
                   isConsoleOpen, timerAge, popoutWindowRef, printed,
                   sinceClear, burst, lastTaken>>
    /\ UNCHANGED saveVars
    /\ UNCHANGED senders
    /\ ~HostCrashed

(* onToggle of the console drawer *)
ToggleConsole ==
    /\ isPreviewVisible
    /\ isConsoleOpen' = ~isConsoleOpen
    /\ UNCHANGED <<files, activeFileId, cdnSettings, debouncedFiles, filesTimer,
                   isPreviewVisible, iframeRef, iframeDoc, logs, toHost,
                   toRuntime, now, calls, resolved, errorThrown, lastGoodDoc,
                   timerAge, popoutWindowRef, popoutDoc, printed, sinceClear,
                   burst, lastTaken>>
    /\ UNCHANGED saveVars
    /\ UNCHANGED senders
    /\ ~HostCrashed

----------------------------------------------------------------------------
(* Console calls in the runtime and messages from other senders. *)

UncaughtDataCloneMessage ==
    "Uncaught DataCloneError: Failed to execute 'postMessage'"

(* The document's script calls console[method](...args).  In an
   instrumented document the wrapper posts the message first and calls the
   original method after it: when postMessage cannot clone an argument its
   DataCloneError leaves the wrapper before original.apply, goes uncaught
   through the calling script and reaches the window's error listener. *)
ConsoleCall(method, args) ==
    /\ isPreviewVisible
    /\ Len(toHost) < MaxQueue
    /\ IF ~Instrumented(iframeDoc)
       THEN /\ toHost' = toHost
            /\ printed' = Printed(method, args)
       ELSE IF \A i \in 1..Len(args) : Cloneable(args[i])
       THEN /\ toHost' = toHost \o ConsoleSend(method, args, now)
            /\ printed' = Printed(method, args)
       ELSE /\ toHost' = toHost \o OnUncaughtError(UncaughtDataCloneMessage, now)
            /\ printed' = Printed("error", <<Str(UncaughtDataCloneMessage)>>)
    /\ UNCHANGED <<files, activeFileId, cdnSettings, debouncedFiles, filesTimer,
                   isPreviewVisible, iframeRef, iframeDoc, logs, toRuntime,
                   now, calls, resolved, errorThrown, lastGoodDoc,
                   isConsoleOpen, timerAge, popoutWindowRef, popoutDoc,
                   sinceClear, burst, lastTaken>>
    /\ UNCHANGED saveVars
    /\ SentBy("runtime")
    /\ ~HostCrashed

(* An error goes uncaught in the document's script block: the browser
   reports it and dispatches an error event at the window.  The listener
   registered by the instrumentation script, where that script is in the
   document, calls console.error(event.message), which is the wrapped
   method. *)
UncaughtError(message) ==
    /\ isPreviewVisible
    /\ Contains(iframeDoc, "<script>")
    /\ Len(toHost) < MaxQueue
    /\ IF Instrumented(iframeDoc)
       THEN /\ toHost' = toHost \o OnUncaughtError(message, now)
            /\ printed' = Printed("error", <<Str(message)>>)
       ELSE /\ toHost' = toHost
            /\ printed' = Printed("uncaught", <<Str(message)>>)
    /\ UNCHANGED <<files, activeFileId, cdnSettings, debouncedFiles, filesTimer,
                   isPreviewVisible, iframeRef, iframeDoc, logs, toRuntime,
                   now, calls, resolved, errorThrown, lastGoodDoc,
                   isConsoleOpen, timerAge, popoutWindowRef, popoutDoc,
                   sinceClear, burst, lastTaken>>
    /\ UNCHANGED saveVars
    /\ SentBy("runtime")
    /\ ~HostCrashed

(* A window other than the preview iframe with a handle on the host window
   (the pop-out through window.opener, the host's opener, another frame)
   posts a message of its own making. *)
PostToHost(data) ==
    /\ Len(toHost) < MaxQueue
    /\ toHost' = Append(toHost, data)
    /\ UNCHANGED <<files, activeFileId, cdnSettings, debouncedFiles, filesTimer,
                   isPreviewVisible, iframeRef, iframeDoc, logs, toRuntime,
                   now, calls, resolved, errorThrown, lastGoodDoc,
                   isConsoleOpen, timerAge, popoutWindowRef, popoutDoc,
                   printed, sinceClear, burst, lastTaken>>
    /\ UNCHANGED saveVars
    /\ SentBy("other")
    /\ ~HostCrashed

----------------------------------------------------------------------------
(* The REPL session over the default project. *)

DEFAULT_FILES ==
    << HtmlFile(<<"<head>", HEAD_CLOSE, "<body>", BODY_CLOSE>>),
       CssFile(<<"body{}">>),
       JsFile(<<"function handleClick(){}">>) >>

Init ==
    /\ files = DEFAULT_FILES
    /\ activeFileId = "index.html"
    /\ cdnSettings = DEFAULT_CDN_SETTINGS
    /\ debouncedFiles = files
    /\ filesTimer = FALSE
    /\ isPreviewVisible = TRUE
    /\ iframeRef = NULL
    /\ logs = <<>>
    /\ iframeDoc = compiledDocOf(files, cdnSettings)
    /\ toHost = <<>>
    /\ toRuntime = <<>>
    /\ now = 0
    /\ calls = <<>>
    /\ resolved = {}
    /\ errorThrown = FALSE
    /\ lastGoodDoc = iframeDoc
    /\ isConsoleOpen = TRUE
    /\ timerAge = 0
    /\ popoutWindowRef = NULL
    /\ popoutDoc = NoDoc
    /\ printed = Printed(NULL, <<>>)
    /\ sinceClear = <<>>
    /\ burst = NoBurst
    /\ lastTaken = NULL
    /\ currentProjectId = NULL
    /\ debouncedCode = codeContentOf(files)
    /\ codeTimer = FALSE
    /\ codeTimerAge = 0
    /\ saved = <<>>
    /\ senders = <<>>

(* What the user types at the REPL input in this session. *)
TypedCodes == {"1+1", "throw null"}

Next ==
    \/ \E code \in TypedCodes, id \in Ids : handleExecuteCode(code, id)
    \/ \E code \in Codes, id \in Ids : PostExecute(code, id)
    \/ RuntimeOnMessage
    \/ HostOnMessage
    \/ handleClearLogs
    \/ handleRefresh
    \/ HidePreview
    \/ ShowPreview

Spec == Init /\ [][Next]_vars

----------------------------------------------------------------------------
(* Compilation of the stored projects.  useLocalStorage starts from what
   "ice-files" and "ice-cdn" hold: any project, with any of the three files
   missing, and any CDN configuration. *)

StoredMarkup ==
    { <<"<head>", HEAD_CLOSE, "<body>", BODY_CLOSE>>,
      <<"<body>", BODY_CLOSE>>,
      <<"<head>", HEAD_CLOSE, "<body>">>,
      <<"<p>">>,
      <<"<head>", HEAD_CLOSE, "<body>", HEAD_CLOSE, BODY_CLOSE>> }

StoredStyle ==
    { <<"body{}">>, <<PAT_MATCH>>, <<PAT_DOLLAR>>, <<PAT_BEFORE>>, <<PAT_AFTER>>,
      <<"/*", BODY_CLOSE, "*/">>, <<"/*", HEAD_CLOSE, "*/">> }

StoredScript ==
    { <<"f()">>, <<PAT_MATCH>>, <<PAT_DOLLAR>>, <<PAT_BEFORE>>, <<PAT_AFTER>>,
      <<"//", BODY_CLOSE>> }

StoredFiles ==
    {<<HtmlFile(h), CssFile(c), JsFile(j)>> :
        h \in StoredMarkup, c \in StoredStyle, j \in StoredScript}
    \cup {<<HtmlFile(h), JsFile(j)>> : h \in StoredMarkup, j \in StoredScript}
    \cup {<<HtmlFile(h), CssFile(c)>> : h \in StoredMarkup, c \in StoredStyle}
    \cup {<<CssFile(c), JsFile(j)>> : c \in StoredStyle, j \in StoredScript}

InitCompile ==
    /\ files \in StoredFiles
    /\ activeFileId = "index.html"
    /\ cdnSettings \in [LibIds -> BOOLEAN]
    /\ debouncedFiles = files
    /\ filesTimer = FALSE
    /\ isPreviewVisible = TRUE
    /\ iframeRef = NULL
    /\ logs = <<>>
    /\ iframeDoc = compiledDocOf(files, cdnSettings)
    /\ toHost = <<>>
    /\ toRuntime = <<>>
    /\ now = 0
    /\ calls = <<>>
    /\ resolved = {}
    /\ errorThrown = FALSE
    /\ lastGoodDoc = IF HasFile(files, "index.html") THEN iframeDoc ELSE NoDoc
    /\ isConsoleOpen = TRUE
    /\ timerAge = 0
    /\ popoutWindowRef = NULL
    /\ popoutDoc = NoDoc
    /\ printed = Printed(NULL, <<>>)
    /\ sinceClear = <<>>
    /\ burst = NoBurst
    /\ lastTaken = NULL
    /\ currentProjectId = NULL
    /\ debouncedCode = codeContentOf(files)
    /\ codeTimer = FALSE
    /\ codeTimerAge = 0
    /\ saved = <<>>
    /\ senders = <<>>

NextCompile ==
    \/ \E lib \in LibIds : SaveSettings(lib)
    \/ handleRefresh
    \/ HidePreview
    \/ ShowPreview

SpecCompile == InitCompile /\ [][NextCompile]_vars

----------------------------------------------------------------------------
(* An editing session over the default project: edits, tab switches, a
   project load, the debounce, CDN toggles, the preview panel and its
   pop-out. *)

EditContents == { <<"edited">> }

LoadableProjects ==
    { [html |-> <<"<head>", HEAD_CLOSE, "<body>", BODY_CLOSE>>,
       css |-> <<>>,
       js |-> <<"g()">>] }

SessionLibs == {"tailwind"}

NextEdit ==
    \/ \E c \in EditContents : handleCodeChange(c)
    \/ \E id \in {"index.html", "styles.css", "script.js"} : setActiveFileId(id)
    \/ \E p \in LoadableProjects : loadProject(p.html, p.css, p.js)
    \/ Tick
    \/ DebounceFire
    \/ \E lib \in SessionLibs : SaveSettings(lib)
    \/ handleRefresh
    \/ HidePreview
    \/ ShowPreview
    \/ PopOut
    \/ ClosePopout

SpecEdit == Init /\ [][NextEdit]_vars

----------------------------------------------------------------------------
(* A console session over the default project: the document's script
   calls the console and posts messages of its own, the host logs them, the
   user clears, toggles the drawer and the panel, and reloads. *)

(* The console calls of the document's script in this session. *)
ConsoleCalls ==
    { [method |-> "log", args |-> <<Str("hi")>>],
      [method |-> "warn", args |-> <<Cyclic>>],
      [method |-> "error", args |-> <<Fn>>],
      [method |-> "info", args |-> <<Str("a"), Num("1")>>] }

(* window.parent.postMessage calls of the document's script. *)
ScriptMsgs ==
    { ConsoleMsg("log", <<NotAnArray>>, 0),
      ResultMsg(Cyclic, Null, "id2", 0) }

NextConsole ==
    \/ \E c \in ConsoleCalls : ConsoleCall(c.method, c.args)
    \/ \E data \in ScriptMsgs : PostToHost(data)
    \/ HostOnMessage
    \/ handleClearLogs
    \/ ToggleConsole
    \/ HidePreview
    \/ ShowPreview
    \/ handleRefresh

SpecConsole == Init /\ [][NextConsole]_vars

----------------------------------------------------------------------------
(* The log store in a session over the default project: messages of every
   kind reach the host's listener, the user runs code at the REPL, clears,
   toggles the drawer and the panel, edits, loads a project, changes the
   CDN settings and reloads. *)

AbsentPayload == [type |-> Missing]

ForeignMsgs ==
    { AbsentPayload,
      ExecuteMsg("1+1", "id1"),
      [type |-> "pong"],
      ConsoleMsg("log", <<Str("hi")>>, 0) }

ReplCodes == {"1+1"}

NextLog ==
    \/ \E data \in ForeignMsgs : PostToHost(data)
    \/ HostOnMessage
    \/ handleClearLogs
    \/ \E code \in ReplCodes, id \in Ids : handleExecuteCode(code, id)
    \/ ToggleConsole
    \/ HidePreview
    \/ ShowPreview
    \/ handleRefresh
    \/ \E c \in EditContents : handleCodeChange(c)
    \/ \E p \in LoadableProjects : loadProject(p.html, p.css, p.js)
    \/ \E lib \in SessionLibs : SaveSettings(lib)

SpecLog == Init /\ [][NextLog]_vars

----------------------------------------------------------------------------
(* Edits settling: the editing session with the browser's timers running.
   Time passes as long as no timer is due, and a timer that is due fires. *)

NextSettle ==
    \/ \E c \in EditContents : handleCodeChange(c)
    \/ Tick
    \/ DebounceFire
    \/ \E lib \in SessionLibs : SaveSettings(lib)
    \/ handleRefresh
    \/ HidePreview
    \/ ShowPreview

SpecSettle ==
    /\ Init
    /\ [][NextSettle]_vars
    /\ WF_vars(Tick)
    /\ WF_vars(DebounceFire)

----------------------------------------------------------------------------
(* Auto-save: projects are opened from the dashboard and edited while the
   timers run. *)

Projects ==
    { [id |-> "A",
       html |-> <<"<head>", HEAD_CLOSE, "<body>", "A", BODY_CLOSE>>,
       css |-> <<>>,
       js |-> <<"a()">>],
      [id |-> "B",
       html |-> <<"<head>", HEAD_CLOSE, "<body>", "B", BODY_CLOSE>>,
       css |-> <<>>,
       js |-> <<"b()">>] }

NextSave ==
    \/ \E project \in Projects : handleOpenProject(project)
    \/ \E c \in EditContents : handleCodeChange(c)
    \/ Tick
    \/ DebounceFire
    \/ CodeDebounceFire

SpecSave == Init /\ [][NextSave]_vars

----------------------------------------------------------------------------
(* The stream of console messages in a session over the default project:
   the document's script calls the console while time passes, the user runs
   code at the REPL, clears and reloads, and the host logs what arrives. *)

StreamCalls ==
    { [method |-> "log", args |-> <<Str("hi")>>],
      [method |-> "warn", args |-> <<Str("a"), Num("1")>>] }

NextStream ==
    \/ \E c \in StreamCalls : ConsoleCall(c.method, c.args)
    \/ \E code \in ReplCodes, id \in Ids : handleExecuteCode(code, id)
    \/ HostOnMessage
    \/ handleClearLogs
    \/ handleRefresh
    \/ Tick

SpecStream == Init /\ [][NextStream]_vars

----------------------------------------------------------------------------
(* Uncaught errors in the documents of the stored projects. *)

RuntimeErrors == {"Uncaught ReferenceError: f is not defined"}

NextFault ==
    \/ \E m \in RuntimeErrors : UncaughtError(m)
    \/ HostOnMessage
    \/ handleClearLogs
    \/ HidePreview
    \/ ShowPreview

SpecFault == InitCompile /\ [][NextFault]_vars

----------------------------------------------------------------------------
(* The claims. *)

IsPrefix(p, s) == Len(p) <= Len(s) /\ SubSeq(s, 1, Len(p)) = p
IsSuffix(p, s) == Len(p) <= Len(s) /\ SubSeq(s, Len(s) - Len(p) + 1, Len(s)) = p
IsResult(m) == m.type = "result"
IsLineBreak(tok) == tok = NEWLINE
NotLineBreak(tok) == tok # NEWLINE
Sent == SubSeq(toHost', Len(toHost) + 1, Len(toHost'))
Appended == SubSeq(logs', Len(logs) + 1, Len(logs'))
OneResultFor(msg, sent) ==
    /\ Len(SelectSeq(sent, IsResult)) = 1
    /\ SelectSeq(sent, IsResult)[1].id = msg.id
ListenerRuns ==
    /\ RuntimeOnMessage
    /\ Instrumented(iframeDoc)
    /\ Head(toRuntime).type = "execute"
HostTakesResult == HostOnMessage /\ Head(toHost).type = "result"
Outstanding ==
    {calls[k].id : k \in {n \in 1..Len(calls) : calls[n].id # NULL}} \ resolved
InFlight(id) ==
    Len(SelectSeq(toRuntime, LAMBDA m : m.type = "execute" /\ m.id = id))
    + Len(SelectSeq(toHost, LAMBDA m : m.type = "result" /\ m.id = id))
    + (IF id \in resolved THEN 1 ELSE 0)

(* C1: for every execute message delivered to the instrumentation script's
   listener, whatever the code evaluates to or throws, the script sends
   exactly one result message, and it carries the id of the execute
   message. *)
C1_ExactlyOneResult ==
    [][ListenerRuns => OneResultFor(Head(toRuntime), Sent)]_vars

(* C2: every call of handleExecuteCode made while the preview is mounted,
   with no load or reload afterwards, has created a request whose result
   the host receives exactly once: the request, its result or the record of
   its receipt is in the system, once. *)
C2_CorrelationIntegrity ==
    \A k \in 1..Len(calls) :
        (calls[k].mounted /\ ~calls[k].orphaned)
            => (calls[k].id # NULL /\ InFlight(calls[k].id) = 1)

(* C3: an execute request whose code throws an Error with message m yields
   a result message with error = m and no value, and every execute message
   delivered afterwards to the same document is answered with its own
   result message. *)
C3_ErrorIsolation ==
    [][ListenerRuns =>
        LET msg == Head(toRuntime)
            r == Eval(msg.code)
        IN  /\ (r.kind = "throw" /\ r.val.t = "Error")
                  => Sent = <<ResultMsg(Null, Str(r.val.v), msg.id, now)>>
            /\ errorThrown => OneResultFor(msg, Sent)]_vars

(* C4: for every result message the host receives exactly one entry is
   appended: an error entry carrying the error string iff the message's
   error field is a string (the empty string included), a result entry
   carrying the formatted value iff the error is null. *)
C4_ResultOrErrorEntry ==
    [][HostTakesResult =>
        LET data == Head(toHost) IN
        /\ Len(Appended) = 1
        /\ IF data.error.t = "string"
           THEN /\ Appended[1].level = "error"
                /\ Appended[1].messages = <<data.error>>
           ELSE /\ data.error = Null
                /\ Appended[1].level = "result"
                /\ Appended[1].messages = <<DisplayValue(data.result)>>]_vars

(* C5: the host appends a result or error entry for a result message only
   when the message's id is the id of a request still outstanding; a result
   message with an unknown or already resolved id appends nothing. *)
C5_OnlyOutstandingIds ==
    [][HostTakesResult =>
        IF Head(toHost).id \in Outstanding
        THEN Len(Appended) = 1
        ELSE Appended = <<>>]_vars

(* The head fragment the compiler is to insert: the tag snippets of the
   enabled libraries, the style block around the style content as written,
   the instrumentation script. *)
HeadFragment(fs, cdn) ==
    EnabledTags(CDN_LIBRARIES, cdn)
    \o (IF HasFile(fs, "styles.css")
        THEN <<"<style>">> \o FindFile(fs, "styles.css").content \o <<"</style>">>
        ELSE <<>>)
    \o <<consoleScript>>

BodyFragment(fs) ==
    IF HasFile(fs, "script.js")
    THEN <<"<script>">> \o FindFile(fs, "script.js").content \o <<"</script>">>
    ELSE <<>>

MarkupOf(fs) == FindFile(fs, "index.html").content

(* C7: when the markup contains a closing head marker, the compiled
   document is the markup with the head fragment (CDN tags, style block
   around the unchanged style content, instrumentation script, in this
   order) inserted immediately before the closing head marker, the head
   before it unchanged (line breaks between the parts aside). *)
C7_HeadInjection ==
    (HasFile(debouncedFiles, "index.html")
     /\ Contains(MarkupOf(debouncedFiles), HEAD_CLOSE))
        => LET m == MarkupOf(debouncedFiles)
               i == IndexOf(m, HEAD_CLOSE)
           IN  IsPrefix(SubSeq(m, 1, i - 1)
                        \o HeadFragment(debouncedFiles, cdnSettings)
                        \o <<HEAD_CLOSE>>,
                        SelectSeq(compiledDoc, NotLineBreak))

(* C8: when there is a script file and the markup contains a closing body
   marker, the compiled document holds the script block around the script
   content exactly as written, immediately before the markup's closing body
   marker, whatever the contents are. *)
C8_BodyInjection ==
    (HasFile(debouncedFiles, "index.html")
     /\ HasFile(debouncedFiles, "script.js")
     /\ Contains(MarkupOf(debouncedFiles), BODY_CLOSE))
        => LET m == MarkupOf(debouncedFiles)
               j == IndexOf(m, BODY_CLOSE)
           IN  IsSuffix(BodyFragment(debouncedFiles) \o SubSeq(m, j, Len(m)),
                        compiledDoc)

(* C9 as stated: with no markup file in the debounced source set nothing
   new is loaded, the runtime keeps the document loaded before. *)
C9_KeepsPreviousDocument ==
    ~HasFile(debouncedFiles, "index.html") => iframeDoc = lastGoodDoc

(* C9 as amended: with no markup file in the debounced source set the
   compiler yields the fixed error document, and that document is what the
   preview iframe holds whenever the preview is shown. *)
C9_LoadsErrorDocument ==
    (~HasFile(debouncedFiles, "index.html") /\ isPreviewVisible)
        => (/\ iframeDoc = ErrorDoc
            /\ ~Instrumented(iframeDoc)
            /\ iframeDoc # lastGoodDoc)

C9_Witness ==
    /\ ~HasFile(debouncedFiles, "index.html")
    /\ HasFile(debouncedFiles, "styles.css")
    /\ isPreviewVisible
    /\ iframeDoc = ErrorDoc
    /\ \E l \in LibIds : cdnSettings[l]

(* C10: when the markup lacks the closing head marker (the closing body
   marker), the head fragment (the body fragment) is still present in the
   compiled document. *)
C10_NoFragmentDropped ==
    HasFile(debouncedFiles, "index.html")
        => /\ ~Contains(MarkupOf(debouncedFiles), HEAD_CLOSE)
                => Instrumented(compiledDoc)
           /\ (~Contains(MarkupOf(debouncedFiles), BODY_CLOSE)
               /\ HasFile(debouncedFiles, "script.js"))
                => Contains(compiledDoc, "<script>")

CountOf(doc, tok) == Len(SelectSeq(doc, LAMBDA t : t = tok))

(* C11: every document loaded in the preview iframe contains exactly one
   instrumentation script block, never none and never more than one. *)
C11_ExactlyOneInstrumentation ==
    isPreviewVisible => CountOf(iframeDoc, consoleScript) = 1

(* The tag snippets of the libraries, with their place in the
   configuration: library index, then tag index. *)
TagPlaces ==
    {p \in (1..Len(CDN_LIBRARIES)) \X (1..2) :
        p[2] <= Len(CDN_LIBRARIES[p[1]].tags)}
TagAt(p) == CDN_LIBRARIES[p[1]].tags[p[2]]
Before(p, q) == p[1] < q[1] \/ (p[1] = q[1] /\ p[2] < q[2])
LibEnabled(p) == cdnSettings[CDN_LIBRARIES[p[1]].id]

(* C12: the CDN part of the head fragment holds the tag snippets of exactly
   the enabled libraries, each once, in configuration order, with line
   breaks between them and nothing else; it is a function of which
   libraries are enabled, whatever toggles led there, and it is what the
   loaded document carries in front of the rest of the head fragment. *)
C12_CdnFragment ==
    LET frag == cdnTagsOf(cdnSettings)
        tags == SelectSeq(frag, NotLineBreak)
    IN  /\ \A p \in TagPlaces :
              CountOf(tags, TagAt(p)) = (IF LibEnabled(p) THEN 1 ELSE 0)
        /\ \A k \in 1..Len(tags) : \E p \in TagPlaces : tags[k] = TagAt(p)
        /\ \A p, q \in TagPlaces :
              (LibEnabled(p) /\ LibEnabled(q) /\ Before(p, q))
                  => IndexOf(tags, TagAt(p)) < IndexOf(tags, TagAt(q))
        /\ \A k \in 1..Len(frag) : IsLineBreak(frag[k]) <=> (k % 2 = 0)
        /\ (/\ isPreviewVisible
            /\ HasFile(debouncedFiles, "index.html")
            /\ Contains(MarkupOf(debouncedFiles), HEAD_CLOSE))
              => LET m == MarkupOf(debouncedFiles)
                     i == IndexOf(m, HEAD_CLOSE)
                 IN  IsPrefix(SubSeq(m, 1, i - 1) \o frag \o <<NEWLINE>>,
                              iframeDoc)

C12_Witness ==
    /\ cdnSettings["bootstrap"]
    /\ ~cdnSettings["tailwind"]
    /\ cdnSettings["jquery"]
    /\ isPreviewVisible
    /\ Contains(iframeDoc, "<script jquery>")
    /\ Contains(iframeDoc, "<link bootstrap.css>")

(* C13: compilation is deterministic: compiling the current source set
   and CDN configuration again, at any point of the session, yields the
   very document that was compiled from them and loaded in the preview,
   whatever was logged, requested or reloaded in between. *)
C13_Deterministic ==
    isPreviewVisible => iframeDoc = compiledDocOf(debouncedFiles, cdnSettings)

C13_Witness ==
    /\ isPreviewVisible
    /\ cdnSettings # DEFAULT_CDN_SETTINGS
    /\ Len(logs) = MaxLogs
    /\ calls # <<>>
    /\ lastTaken = "console"
    /\ iframeDoc = compiledDocOf(debouncedFiles, cdnSettings)

(* C14: debounce coalescing.  While the edits of a burst follow each other
   with the timer still pending, nothing is recompiled; once the timer has
   run out, DebounceDelay after the last edit of the burst and not later,
   exactly one recompilation has happened, of the source set as of that last
   edit, and its document is the one in the preview. *)
C14_DebounceCoalescing ==
    /\ [](filesTimer => burst.emissions = 0)
    /\ []((~filesTimer /\ burst.edits > 0)
            => (burst.emissions = 1 /\ debouncedFiles = files))
    /\ [](filesTimer => now < burst.lastEdit + DebounceDelay + TickStep)
    /\ [][burst'.emissions > burst.emissions =>
            /\ burst'.emissions = burst.emissions + 1
            /\ now >= burst.lastEdit + DebounceDelay
            /\ debouncedFiles' = files
            /\ files' = files
            /\ isPreviewVisible
                  => iframeDoc' = compiledDocOf(files, cdnSettings)]_vars

C14_Witness ==
    /\ burst.edits = MaxBurst
    /\ burst.lastEdit >= TickStep
    /\ burst.emissions = 1
    /\ ~filesTimer
    /\ debouncedFiles = files
    /\ files # DEFAULT_FILES
    /\ now >= burst.lastEdit + DebounceDelay
    /\ isPreviewVisible
    /\ iframeDoc = compiledDocOf(files, cdnSettings)

(* C15: the log store is append-only until it is cleared: every step
   other than a clear leaves the entries it held in place and unchanged,
   as a prefix of the entries it holds afterwards. *)
C15_AppendOnly ==
    [][handleClearLogs \/ IsPrefix(logs, logs')]_vars

C15_Witness ==
    /\ Len(logs) = MaxLogs
    /\ logs[1].level = "command"
    /\ lastTaken = "console"
    /\ files # DEFAULT_FILES
    /\ cdnSettings # DEFAULT_CDN_SETTINGS
    /\ ~isConsoleOpen

(* C16: right after a clear the log store is empty, and from then on it
   holds exactly the entries appended since that clear, in the order of
   their appending: nothing from before the clear comes back. *)
C16_ClearThenAppend ==
    /\ [][handleClearLogs => logs' = <<>>]_vars
    /\ [](logs = sinceClear)

(* A command entry was appended, a clear took it away, and the entry of a
   message received after the clear is the only one. *)
C16_Witness ==
    /\ Len(calls) = 1
    /\ Len(logs) = 1
    /\ logs[1].level # "command"
    /\ lastTaken = "console"

(* The host's state: everything but the queues and clocks of the windows. *)
hostState ==
    <<files, activeFileId, cdnSettings, debouncedFiles, filesTimer, timerAge,
      isPreviewVisible, isConsoleOpen, iframeRef, iframeDoc, logs,
      popoutWindowRef, popoutDoc>>

Unrecognized(data) == data.type \notin {"console", "result"}

HostTakes == toHost # <<>> /\ toHost' = Tail(toHost)

(* C17: a message whose payload is absent or whose type is neither console
   nor result (execute included) is dropped by the host's listener: the log
   store and the rest of the host's state stay as they are and nothing is
   raised. *)
C17_UnrecognizedDropped ==
    [][(HostTakes /\ Unrecognized(Head(toHost)))
          => (UNCHANGED hostState /\ ~HostCrashed')]_vars

C17_Witness ==
    /\ lastTaken \in {Missing, "execute", "pong"}
    /\ logs # <<>>
    /\ toHost = <<>>

(* C18: no message sent from the runtime raises an exception in the host:
   whatever the host's listener took, the console drawer renders the log
   store. *)
C18_NoHostException == ~HostCrashed

(* C19: every call of console.log, console.warn, console.error or
   console.info in an instrumented document sends exactly one console
   message, with the method as its level and the call's arguments as its
   messages, and performs the original method. *)
C19_ConsoleCallRelayed ==
    [][\A c \in ConsoleCalls :
          (ConsoleCall(c.method, c.args) /\ Instrumented(iframeDoc))
              => /\ Sent = <<ConsoleMsg(c.method, c.args, now)>>
                 /\ printed' = Printed(c.method, c.args)]_vars

(* C20: while a pop-out window is open, the document in it is the document
   loaded in the preview iframe. *)
C20_MirrorInSync ==
    (popoutDoc # NoDoc /\ isPreviewVisible) => popoutDoc = iframeDoc

SentToRuntime == SubSeq(toRuntime', Len(toRuntime) + 1, Len(toRuntime'))

(* C21: each call of handleExecuteCode with a code string appends exactly
   one command entry carrying that code and sends exactly one execute
   message, with that code and an id, to the runtime. *)
C21_ExecuteAppendsAndSends ==
    [][\A code \in TypedCodes :
          (\E id \in Ids : handleExecuteCode(code, id))
              => /\ Appended = <<LogEntry("command", <<Str(code)>>, now)>>
                 /\ \E id \in Ids : SentToRuntime = <<ExecuteMsg(code, id)>>]_vars

(* C22: once a request for "1+1" made in the loaded document has run its
   course (nothing is queued in either direction), its command entry is
   directly followed by the result entry ["2"]. *)
C22_CommandThenResult ==
    (/\ toRuntime = <<>>
     /\ toHost = <<>>
     /\ \A k \in 1..Len(calls) : ~calls[k].orphaned)
        => \A i \in 1..Len(logs) :
              (logs[i].level = "command" /\ logs[i].messages = <<Str("1+1")>>)
                  => /\ i < Len(logs)
                     /\ logs[i + 1].level = "result"
                     /\ logs[i + 1].messages = <<Str("2")>>

EntryOf(m) == LogEntry(m.level, m.messages, m.timestamp)
IsConsole(m) == m.type = "console"
NotCommand(e) == e.level # "command"

(* The entries of the console messages sent so far and not cleared: those
   in the log store, then those of the messages still on their way. *)
ConsoleStreamOf(ls, q) ==
    SelectSeq(ls, NotCommand)
    \o [k \in 1..Len(SelectSeq(q, IsConsole)) |->
            EntryOf(SelectSeq(q, IsConsole)[k])]

(* C24: the console messages of a document are appended in the order they
   were sent, one entry per message, and each entry has the level, the
   messages and the timestamp of its message. *)
C24_ConsoleFifo ==
    /\ [][handleClearLogs
          \/ IsPrefix(ConsoleStreamOf(logs, toHost),
                      ConsoleStreamOf(logs', toHost'))]_vars
    /\ [][(HostTakes /\ IsConsole(Head(toHost)))
            => Appended = <<EntryOf(Head(toHost))>>]_vars

C24_Witness ==
    /\ Len(logs) = MaxLogs
    /\ logs[1].level = "log"
    /\ logs[2].level = "warn"
    /\ logs[1].timestamp < logs[2].timestamp
    /\ toHost # <<>>
    /\ toHost[1].timestamp > logs[2].timestamp
    /\ now > toHost[1].timestamp

(* C25: in every state the timestamps of the log store's entries are
   non-decreasing in sequence order. *)
C25_TimestampsOrdered ==
    \A i, j \in 1..Len(logs) :
        i < j => logs[i].timestamp <= logs[j].timestamp

(* C28: every uncaught error in the document sends exactly one console
   message of level error carrying the error's message, and raises nothing
   in the host. *)
C28_UncaughtErrorReported ==
    [][\A m \in RuntimeErrors :
          UncaughtError(m)
              => /\ Sent = <<ConsoleMsg("error", <<Str(m)>>, now)>>
                 /\ ~HostCrashed']_vars

(* C26: a refresh loads again the document that was loaded: the document
   in the preview after it is the one before it, nothing is compiled anew,
   and the files, the CDN settings, the pending debounce timers and the log
   store stay as they are. *)
C26_ReloadVerbatim ==
    [][handleRefresh
          => /\ iframeDoc' = iframeDoc
             /\ UNCHANGED <<files, cdnSettings, debouncedFiles, filesTimer,
                            timerAge, debouncedCode, codeTimer, codeTimerAge,
                            logs>>]_vars

(* A request was cut off by a reload of the document while an edit was
   waiting for its debounce, and the preview still shows the document of
   the debounced files. *)
C26_Witness ==
    /\ isPreviewVisible
    /\ calls # <<>>
    /\ calls[1].orphaned
    /\ filesTimer
    /\ compiledDocOf(files, cdnSettings) # iframeDoc
    /\ iframeDoc = compiledDocOf(debouncedFiles, cdnSettings)
    /\ logs # <<>>

(* The preview has caught up with the editor. *)
Settled ==
    /\ ~filesTimer
    /\ debouncedFiles = files
    /\ isPreviewVisible => iframeDoc = compiledDocOf(files, cdnSettings)

(* The clock of the model still has room for the pending timer to run out. *)
RoomToSettle ==
    \E n \in 1..DebounceDelay :
        /\ n * TickStep >= DebounceDelay
        /\ burst.lastEdit + n * TickStep <= MaxNow

(* C27: once edits stop, the preview eventually holds the document
   compiled from the final files and the current CDN settings, and holds it
   until the next edit or CDN toggle: with no timer pending the document
   shown is the compilation of the files as they are, a shown preview gets
   another document only when the debounce emits or a CDN setting changes,
   and a new document replaces the whole of the old one, the messages
   queued for it included. *)
C27_EditsSettle ==
    /\ (filesTimer /\ RoomToSettle) ~> (Settled \/ (filesTimer /\ ~RoomToSettle))
    /\ []((~filesTimer /\ isPreviewVisible)
            => iframeDoc = compiledDocOf(files, cdnSettings))
    /\ [][(isPreviewVisible /\ isPreviewVisible' /\ iframeDoc' # iframeDoc)
            => (DebounceFire \/ \E lib \in SessionLibs : SaveSettings(lib))]_vars
    /\ [][iframeDoc' # iframeDoc
            => (toRuntime' = <<>> /\ errorThrown' = FALSE)]_vars

C27_Witness ==
    /\ Settled
    /\ isPreviewVisible
    /\ burst.emissions = 1
    /\ burst.edits >= 2
    /\ now > burst.lastEdit + DebounceDelay
    /\ cdnSettings # DEFAULT_CDN_SETTINGS
    /\ Contains(iframeDoc, "edited")

(* C29: saveProject is called only as the emission of the 1500 ms
   debounce, never before the initial load is over, and with the content
   the editor holds for the open project: a new callback alone calls
   nothing. *)
C29_SaveOnlyOnEmission ==
    [][saved' # saved
          => /\ CodeDebounceFire
             /\ now >= InitialLoadDelay
             /\ saved'[1].id = currentProjectId'
             /\ saved'[1].code = codeContentOf(files')]_vars

(* C30: a message that reaches the host's listener from a window other
   than the preview's runtime adds no entry to the log store. *)
C30_OnlyRuntimeMessagesLogged ==
    [][(HostTakes /\ Head(senders) # "runtime") => Appended = <<>>]_vars

====
